---- MODULE Spec2Model ----
(***************************************************************************)
(* A model of the nserve hook package (hook.go): hook definitions, their   *)
(* configuration operations and Copy, with Go slices modelled as           *)
(* (array, len, cap) views of shared backing arrays, and of the dispatch   *)
(* engine (App.On / App.Do) that runs a hook's callbacks.                  *)
(***************************************************************************)
EXTENDS Integers, Sequences, FiniteSets, TLC

(***************************************************************************)
(* Bounds of the model.                                                    *)
(***************************************************************************)
MaxOps == 3        \* operations in a run of the configuration machine
MaxAliasOps == 5   \* operations in a run of the copy-and-append machine
MaxSetup == 1      \* configuration operations in a run of the dispatch machine
MaxRegs == 3       \* callbacks registered in a run of the dispatch machine
MaxDos == 2        \* Do calls by the driver in a run of the dispatch machine
MaxCalls == 3      \* method calls in a run of the lock machine
MaxDepth == 4      \* nested Do calls the goroutine's stack has room for

VARIABLES
    hookCounter,  \* var hookCounter int32
    hooks,        \* the heap of Hook structs: address -> Hook
    arrays,       \* the heap of slice backing arrays: array id -> contents
    policy,       \* history: the ordering policy each hook was created with
    copyOf,       \* history: the hook each hook was copied from (0: NewHook)
    lastOp,       \* history: the operation performed last and its inputs
    ret,          \* history: the *Hook the operation performed last returned
    nops,         \* history: the number of operations performed so far
    budget,       \* the number of operations this run may perform
    holds,        \* goroutine -> the mutexes (by address) it holds
    thr           \* goroutine -> the call it is in: its position and locals

thrvars == <<holds, thr>>

cfgvars == <<hookCounter, hooks, arrays, policy, copyOf, lastOp, ret, nops, budget,
             thrvars>>

VARIABLES
    registry,     \* the App's registry: hook -> its registered callbacks
    stack,        \* the dispatch in progress: the frames of the nested Do calls
    hist,         \* history: per frame, what its dispatch has done so far
    last,         \* history: the frame that returned last, with its history
    call,         \* the driver's current Do call and what it has observed
    ndos          \* history: the number of Do calls the driver has made

appvars == <<registry, stack, hist, last, call, ndos>>

vars == <<cfgvars, appvars>>

(***************************************************************************)
(* type hookOrder string and its two constants.                            *)
(***************************************************************************)
ForwardOrder == "forward"
ReverseOrder == "forward"

Policies == {"Forward", "Reverse"}

\* The hookOrder constant a caller passes when asking for policy p.
OrderConst(p) == IF p = "Forward" THEN ForwardOrder ELSE ReverseOrder

\* Names given to hooks created after package initialisation.
Names == {"x", "y"}

\* Error combiners a caller may install; NoCombiner is the nil func.
NoCombiner == "nil"
Combiners == {"f", "g"}

\* Callback descriptors (interface{} values) a caller may put in Providers.
ProviderVals == {1, 2}

(***************************************************************************)
(* Go slices.  A slice is a view (arr, len, cap) of a backing array; the   *)
(* nil slice has no array.  Array 0 does not exist.                        *)
(***************************************************************************)
NilSlice == [arr |-> 0, len |-> 0, cap |-> 0]

\* The elements visible through slice s.
Elems(arrs, s) == IF s.arr = 0 THEN <<>> ELSE SubSeq(arrs[s.arr], 1, s.len)

\* make([]T, n): a fresh zeroed array of n elements and the slice over it.
Make(arrs, n) ==
    [arrays |-> Append(arrs, [i \in 1..n |-> 0]),
     slice  |-> [arr |-> Len(arrs) + 1, len |-> n, cap |-> n]]

\* copy(dst, src): the first min(len) elements of src written into dst's array.
CopySlice(arrs, dst, src) ==
    LET n == IF dst.len < src.len THEN dst.len ELSE src.len
    IN  IF n = 0 THEN arrs
        ELSE [arrs EXCEPT ![dst.arr] =
                 [i \in 1..Len(@) |-> IF i <= n THEN arrs[src.arr][i] ELSE @[i]]]

\* append(s, e): in place when capacity allows, otherwise into a fresh
\* array of doubled capacity.
AppendSlice(arrs, s, e) ==
    IF s.len < s.cap
    THEN [arrays |-> [arrs EXCEPT ![s.arr][s.len + 1] = e],
          slice  |-> [s EXCEPT !.len = s.len + 1]]
    ELSE LET newcap == IF s.cap = 0 THEN 1 ELSE 2 * s.cap
             old    == Elems(arrs, s)
         IN  [arrays |-> Append(arrs, [i \in 1..newcap |->
                            IF i <= s.len THEN old[i]
                            ELSE IF i = s.len + 1 THEN e ELSE 0]),
              slice  |-> [arr |-> Len(arrs) + 1, len |-> s.len + 1, cap |-> newcap]]

(***************************************************************************)
(* The program state the hook operations act on, as one value.             *)
(***************************************************************************)
World == [hookCounter |-> hookCounter, hooks |-> hooks, arrays |-> arrays]

\* atomic.AddInt32(&hookCounter, 1): int32 arithmetic wraps.
AddInt32(c) == IF c = 2147483647 THEN -2147483647 - 1 ELSE c + 1

\* NewHook as it would be if the new Hook were made from the one created
\* last instead of from a composite literal.
NewHook_FromLast(w, name, order) ==
    [w EXCEPT
       !.hookCounter = AddInt32(w.hookCounter),
       !.hooks = Append(w.hooks,
           [Id            |-> AddInt32(w.hookCounter),
            lock          |-> Len(w.hooks) + 1,
            Name          |-> name,
            Order         |-> order,
            InvokeOnError |-> NilSlice,
            ContinuePast  |-> w.hooks # <<>> /\ w.hooks[Len(w.hooks)].ContinuePast,
            ErrorCombiner |-> IF w.hooks = <<>> THEN NoCombiner
                              ELSE w.hooks[Len(w.hooks)].ErrorCombiner,
            Providers     |-> NilSlice])]

\* NewHook(name, order): the world with the new hook at the next address.
NewHook(w, name, order) ==
    [w EXCEPT
       !.hookCounter = AddInt32(w.hookCounter),
       !.hooks = Append(w.hooks,
           [Id            |-> AddInt32(w.hookCounter),
            lock          |-> Len(w.hooks) + 1,
            Name          |-> name,
            Order         |-> order,
            InvokeOnError |-> NilSlice,
            ContinuePast  |-> FALSE,
            ErrorCombiner |-> NoCombiner,
            Providers     |-> NilSlice])]

\* Copy as it would be with hc := *h left as it is: no new identifier.
Copy_KeepsId(w, h) ==
    LET m1 == Make(w.arrays, w.hooks[h].InvokeOnError.len)
        a1 == CopySlice(m1.arrays, m1.slice, w.hooks[h].InvokeOnError)
        m2 == Make(a1, w.hooks[h].Providers.len)
        a2 == CopySlice(m2.arrays, m2.slice, w.hooks[h].Providers)
        hc == [w.hooks[h] EXCEPT
                 !.InvokeOnError = m1.slice,
                 !.Providers     = m2.slice,
                 !.lock          = Len(w.hooks) + 1]
    IN  [hookCounter |-> w.hookCounter,
         hooks       |-> Append(w.hooks, hc),
         arrays      |-> a2]

\* Copy as it would be without the new backing arrays: the copy's slices
\* are views of the original's arrays.
Copy_SharesArrays(w, h) ==
    LET hc == [w.hooks[h] EXCEPT
                 !.Id   = AddInt32(w.hookCounter),
                 !.lock = Len(w.hooks) + 1]
    IN  [hookCounter |-> AddInt32(w.hookCounter),
         hooks       |-> Append(w.hooks, hc),
         arrays      |-> w.arrays]

\* Copy as it would be without copy(op, h.Providers): the copy's callback
\* list has the right length and holds zero values.
Copy_ForgetsProviders(w, h) ==
    LET m1 == Make(w.arrays, w.hooks[h].InvokeOnError.len)
        a1 == CopySlice(m1.arrays, m1.slice, w.hooks[h].InvokeOnError)
        m2 == Make(a1, w.hooks[h].Providers.len)
        hc == [w.hooks[h] EXCEPT
                 !.InvokeOnError = m1.slice,
                 !.Id            = AddInt32(w.hookCounter),
                 !.Providers     = m2.slice,
                 !.lock          = Len(w.hooks) + 1]
    IN  [hookCounter |-> AddInt32(w.hookCounter),
         hooks       |-> Append(w.hooks, hc),
         arrays      |-> m2.arrays]

\* Copy as it would be with the new identifier assigned through h: the
\* original is renumbered and the copy keeps the original's identifier.
Copy_RenumbersOriginal(w, h) ==
    LET m1 == Make(w.arrays, w.hooks[h].InvokeOnError.len)
        a1 == CopySlice(m1.arrays, m1.slice, w.hooks[h].InvokeOnError)
        m2 == Make(a1, w.hooks[h].Providers.len)
        a2 == CopySlice(m2.arrays, m2.slice, w.hooks[h].Providers)
        hc == [w.hooks[h] EXCEPT
                 !.InvokeOnError = m1.slice,
                 !.Providers     = m2.slice,
                 !.lock          = Len(w.hooks) + 1]
    IN  [hookCounter |-> AddInt32(w.hookCounter),
         hooks       |-> Append([w.hooks EXCEPT ![h].Id = AddInt32(w.hookCounter)], hc),
         arrays      |-> a2]

\* h.Copy(): the world with the copy at the next address.
Copy(w, h) ==
    LET m1 == Make(w.arrays, w.hooks[h].InvokeOnError.len)
        a1 == CopySlice(m1.arrays, m1.slice, w.hooks[h].InvokeOnError)
        m2 == Make(a1, w.hooks[h].Providers.len)
        a2 == CopySlice(m2.arrays, m2.slice, w.hooks[h].Providers)
        hc == [w.hooks[h] EXCEPT
                 !.InvokeOnError = m1.slice,
                 !.Id            = AddInt32(w.hookCounter),
                 !.Providers     = m2.slice,
                 !.lock          = Len(w.hooks) + 1]
    IN  [hookCounter |-> AddInt32(w.hookCounter),
         hooks       |-> Append(w.hooks, hc),
         arrays      |-> a2]

\* OnError as it would be with the result of append not stored in h.
OnError_DropsAppend(w, h, e) ==
    IF e = 0
    THEN [w EXCEPT !.hooks[h].InvokeOnError = NilSlice]
    ELSE w

\* OnError as it would be if a hook already in the list were not added again.
OnError_SkipsDuplicates(w, h, e) ==
    IF e = 0
    THEN [w EXCEPT !.hooks[h].InvokeOnError = NilSlice]
    ELSE IF \E i \in 1..w.hooks[h].InvokeOnError.len :
                Elems(w.arrays, w.hooks[h].InvokeOnError)[i] = e
    THEN w
    ELSE LET r == AppendSlice(w.arrays, w.hooks[h].InvokeOnError, e)
         IN  [w EXCEPT !.hooks[h].InvokeOnError = r.slice, !.arrays = r.arrays]

\* h.OnError(e); e = 0 is the nil hook.
OnError(w, h, e) ==
    IF e = 0
    THEN [w EXCEPT !.hooks[h].InvokeOnError = NilSlice]
    ELSE LET r == AppendSlice(w.arrays, w.hooks[h].InvokeOnError, e)
         IN  [w EXCEPT !.hooks[h].InvokeOnError = r.slice, !.arrays = r.arrays]

\* h.SetErrorCombiner(f)
SetErrorCombiner(w, h, f) == [w EXCEPT !.hooks[h].ErrorCombiner = f]

\* ContinuePastError as it would be if it set the flag of h's cascade
\* targets as well.
ContinuePastError_SetsTargets(w, h, b) ==
    LET targets == {Elems(w.arrays, w.hooks[h].InvokeOnError)[i] :
                       i \in 1..w.hooks[h].InvokeOnError.len}
    IN  [w EXCEPT !.hooks = [a \in 1..Len(w.hooks) |->
                                IF a = h \/ a \in targets
                                THEN [w.hooks[a] EXCEPT !.ContinuePast = b]
                                ELSE w.hooks[a]]]

\* h.ContinuePastError(b)
ContinuePastError(w, h, b) == [w EXCEPT !.hooks[h].ContinuePast = b]

\* h.String()
String(w, h) == "hook " \o w.hooks[h].Name

\* h.Providers = append(h.Providers, p), by a caller through the exported field.
AppendProvider(w, h, p) ==
    LET r == AppendSlice(w.arrays, w.hooks[h].Providers, p)
    IN  [w EXCEPT !.hooks[h].Providers = r.slice, !.arrays = r.arrays]

(***************************************************************************)
(* Goroutines calling the methods concurrently.  A call is a sequence of   *)
(* steps, one per access to shared memory; pc is the step it is about to   *)
(* take, s, oe, op and hc are the locals of the method.                    *)
(***************************************************************************)
Threads == {1, 2}

\* The zero value of Hook.
ZeroHook ==
    [Id            |-> 0,
     lock          |-> 0,
     Name          |-> "",
     Order         |-> "",
     InvokeOnError |-> NilSlice,
     ContinuePast  |-> FALSE,
     ErrorCombiner |-> NoCombiner,
     Providers     |-> NilSlice]

\* A goroutine that is in no call.
Idle ==
    [pc |-> "idle", call |-> "none", h |-> 0, e |-> 0, f |-> NoCombiner, b |-> FALSE,
     s |-> NilSlice, oe |-> NilSlice, op |-> NilSlice, hc |-> ZeroHook]

\* h.InvokeOnError = append(s, e), for a slice s read from h.InvokeOnError.
StoreAppend(w, h, s, e) ==
    LET r == AppendSlice(w.arrays, s, e)
    IN  [w EXCEPT !.hooks[h].InvokeOnError = r.slice, !.arrays = r.arrays]

(***************************************************************************)
(* Package initialisation: the three predefined hooks, in the order Go     *)
(* initialises them (Shutdown, then Stop which needs it, then Start).      *)
(***************************************************************************)
Shutdown == 1
Stop == 2
Start == 3

EmptyWorld == [hookCounter |-> 0, hooks |-> <<>>, arrays |-> <<>>]

InitShutdown == NewHook(EmptyWorld, "shutdown", ReverseOrder)

InitStop ==
    ContinuePastError(
        OnError(NewHook(InitShutdown, "stop", ReverseOrder), Stop, Shutdown),
        Stop, TRUE)

InitStart == OnError(NewHook(InitStop, "start", ForwardOrder), Start, Stop)

InitPolicy == <<"Reverse", "Reverse", "Forward">>

(***************************************************************************)
(* Views of the state used by guards and properties.                       *)
(***************************************************************************)
HookSet == 1..Len(hooks)

Cascade(h) == Elems(arrays, hooks[h].InvokeOnError)

Callbacks(h) == Elems(arrays, hooks[h].Providers)

\* The record of an operation: its name, receiver and inputs (those the
\* operation does not take are 0, NoCombiner, FALSE).
Op(name, recv, e, f, b) == [op |-> name, recv |-> recv, e |-> e, f |-> f, b |-> b]

\* One operation of hook.go: the world changes to w, within the budget.
Step(w) ==
    /\ nops < budget
    /\ nops' = nops + 1
    /\ hookCounter' = w.hookCounter
    /\ hooks' = w.hooks
    /\ arrays' = w.arrays
    /\ UNCHANGED budget
    /\ UNCHANGED thrvars
    /\ UNCHANGED appvars

(***************************************************************************)
(* The operations as actions, on given inputs.                             *)
(***************************************************************************)
NewHookAct(name, p) ==
    /\ Step(NewHook(World, name, OrderConst(p)))
    /\ policy' = Append(policy, p)
    /\ copyOf' = Append(copyOf, 0)
    /\ lastOp' = [op |-> "NewHook", recv |-> 0, e |-> 0, f |-> NoCombiner, b |-> FALSE,
                   name |-> name, order |-> OrderConst(p)]
    /\ ret' = Len(hooks) + 1

CopyAct(h) ==
    /\ Step(Copy(World, h))
    /\ policy' = Append(policy, policy[h])
    /\ copyOf' = Append(copyOf, h)
    /\ lastOp' = Op("Copy", h, 0, NoCombiner, FALSE)
    /\ ret' = Len(hooks) + 1

OnErrorAct(h, e) ==
    /\ Step(OnError(World, h, e))
    /\ lastOp' = Op("OnError", h, e, NoCombiner, FALSE)
    /\ ret' = h
    /\ UNCHANGED <<policy, copyOf>>

SetErrorCombinerAct(h, f) ==
    /\ Step(SetErrorCombiner(World, h, f))
    /\ lastOp' = Op("SetErrorCombiner", h, 0, f, FALSE)
    /\ ret' = h
    /\ UNCHANGED <<policy, copyOf>>

ContinuePastErrorAct(h, b) ==
    /\ Step(ContinuePastError(World, h, b))
    /\ lastOp' = Op("ContinuePastError", h, 0, NoCombiner, b)
    /\ ret' = h
    /\ UNCHANGED <<policy, copyOf>>

StringAct(h) ==
    /\ Step(World)
    /\ lastOp' = [op |-> "String", recv |-> h, e |-> 0, f |-> NoCombiner, b |-> FALSE,
                   str |-> String(World, h)]
    /\ UNCHANGED <<policy, copyOf, ret>>

AppendProviderAct(h, p) ==
    /\ Step(AppendProvider(World, h, p))
    /\ lastOp' = Op("AppendProvider", h, p, NoCombiner, FALSE)
    /\ UNCHANGED ret
    /\ UNCHANGED <<policy, copyOf>>

PackageInit ==
    /\ hookCounter = InitStart.hookCounter
    /\ hooks = InitStart.hooks
    /\ arrays = InitStart.arrays
    /\ policy = InitPolicy
    /\ copyOf = <<0, 0, 0>>
    /\ lastOp = Op("init", 0, 0, NoCombiner, FALSE)
    /\ ret = Start
    /\ nops = 0
    /\ holds = [t \in Threads |-> {}]
    /\ thr = [t \in Threads |-> Idle]

(***************************************************************************)
(* The App: registration (On) and dispatch (Do).                           *)
(***************************************************************************)
NilError == <<>>

\* The error a failing callback cb of hook h returns.
CallbackError(h, cb) == <<10 * h + cb>>

\* The error Do gives a caller whose timeout elapsed.
TimeoutError == <<0>>

\* f(first, second) for an installed combiner f: the pair, kept in order
\* and tagged with the combiner, so that different folds differ.
Combine(f, first, second) == <<IF f = "f" THEN -1 ELSE -2>> \o first \o second

\* The App's registered callbacks for hook h.
RegOf(h) == IF h \in DOMAIN registry THEN registry[h] ELSE <<>>

Reverse(s) == [i \in 1..Len(s) |-> s[Len(s) + 1 - i]]

\* The callbacks in the order a dispatch with ordering policy order
\* iterates them.
Chains(order, reg) == IF order = ReverseOrder THEN Reverse(reg) ELSE reg

\* Accumulate as it would be with the combiner's arguments exchanged.
Accumulate_SwapsArguments(comb, acc, e) ==
    IF e = NilError THEN acc
    ELSE IF acc = NilError THEN e
    ELSE IF comb # NoCombiner THEN Combine(comb, e, acc)
    ELSE acc

\* The accumulated error after one more result e.
Accumulate(comb, acc, e) ==
    IF e = NilError THEN acc
    ELSE IF acc = NilError THEN e
    ELSE IF comb # NoCombiner THEN Combine(comb, acc, e)
    ELSE acc

\* The frame of a Do of hook h that begins now: the hook's configuration
\* and the App's callback list for it, as they are now.
NewFrame(h) ==
    [hook    |-> h,
     order   |-> hooks[h].Order,
     cascade |-> Cascade(h),
     cont    |-> hooks[h].ContinuePast,
     comb    |-> hooks[h].ErrorCombiner,
     chains  |-> Chains(hooks[h].Order, RegOf(h)),
     idx     |-> 1,
     err     |-> NilError,
     aborted |-> FALSE,
     cidx    |-> 1]

\* The callbacks frame f would iterate if it read the App's list anew at
\* every step.
Pending_Live(f) == Chains(f.order, RegOf(f.hook))

\* The callbacks frame f iterates.
Pending(f) == f.chains

\* Frame f is still in its callback loop.
InLoop(f) == ~f.aborted /\ f.idx <= Len(Pending(f))

\* AfterCallback as it would be without the test of the continue flag.
AfterCallback_NeverAborts(f, e) ==
    [f EXCEPT !.err = Accumulate(f.comb, f.err, e),
              !.idx = f.idx + 1]

\* Frame f after its next callback returned e (NilError: success).
AfterCallback(f, e) ==
    [f EXCEPT !.err     = Accumulate(f.comb, f.err, e),
              !.aborted = (e # NilError /\ ~f.cont),
              !.idx     = f.idx + 1]

\* Frame f has cascade hooks left to dispatch.
CascadeDue(f) == ~InLoop(f) /\ f.err # NilError /\ f.cidx <= Len(f.cascade)

\* Frame f after the Do of its next cascade hook returned e.
AfterCascade(f, e) ==
    [f EXCEPT !.err  = Accumulate(f.comb, f.err, e),
              !.cidx = f.cidx + 1]

\* The history of a frame that begins now.
NewHist(h) ==
    [reg |-> RegOf(h), invoked |-> <<>>, failed |-> <<>>,
     loopErr |-> NilError, cascaded |-> <<>>, cerrs |-> <<>>]

NoCall ==
    [hook |-> 0, timed |-> FALSE, state |-> "idle", result |-> NilError,
     bg |-> "none", seen |-> 0]

AppInit ==
    /\ registry = [h \in {} |-> <<>>]
    /\ stack = <<>>
    /\ hist = <<>>
    /\ last = <<>>
    /\ call = NoCall
    /\ ndos = 0

Top == stack[Len(stack)]

Regs == LET RECURSIVE Sum(_)
            Sum(S) == IF S = {} THEN 0
                      ELSE LET x == CHOOSE x \in S : TRUE
                           IN  Len(registry[x]) + Sum(S \ {x})
        IN  Sum(DOMAIN registry)

\* app.On(h, callback): the callback is the next descriptor for h.
On(h) ==
    /\ Regs < MaxRegs
    /\ registry' = [x \in DOMAIN registry \cup {h} |->
                       IF x = h THEN Append(RegOf(h), Len(RegOf(h)) + 1)
                       ELSE registry[x]]
    /\ UNCHANGED <<cfgvars, stack, hist, last, call, ndos>>

\* app.Do(h) or app.Do(h, timeout) is called: the dispatch begins.  The
\* driver calls Do when no earlier dispatch is still running.
DoBegin(h, timed) ==
    /\ stack = <<>>
    /\ ndos < MaxDos
    /\ ndos' = ndos + 1
    /\ stack' = <<NewFrame(h)>>
    /\ hist' = <<NewHist(h)>>
    /\ last' = <<>>
    /\ call' = [NoCall EXCEPT !.hook = h, !.timed = timed, !.state = "waiting",
                              !.bg = "running"]
    /\ UNCHANGED <<cfgvars, registry>>

\* The dispatch invokes its next callback, which succeeds or fails.
Invoke(ok) ==
    /\ stack # <<>>
    /\ InLoop(Top)
    /\ LET n  == Len(stack)
           cb == Pending(Top)[Top.idx]
           e  == IF ok THEN NilError ELSE CallbackError(Top.hook, cb)
           f  == AfterCallback(Top, e)
       IN  /\ stack' = [stack EXCEPT ![n] = f]
           /\ hist' = [hist EXCEPT
                         ![n].invoked = Append(@, cb),
                         ![n].failed  = IF ok THEN @ ELSE Append(@, e),
                         ![n].loopErr = f.err]
    /\ UNCHANGED <<cfgvars, registry, last, call, ndos>>

\* The dispatch, ended in error, calls Do for its next cascade hook.
CascadeCall ==
    /\ stack # <<>>
    /\ CascadeDue(Top)
    /\ LET n == Len(stack)
           t == Top.cascade[Top.cidx]
       IN  /\ stack' = Append(stack, NewFrame(t))
           /\ hist' = Append([hist EXCEPT ![n].cascaded = Append(@, t)], NewHist(t))
    /\ UNCHANGED <<cfgvars, registry, last, call, ndos>>

\* A Do returns: to the Do that cascaded into it, or to the driver (who
\* gets the result unless the timeout has already returned to it).
Return ==
    /\ stack # <<>>
    /\ ~InLoop(Top)
    /\ ~CascadeDue(Top)
    /\ LET n == Len(stack)
       IN  /\ last' = <<[f |-> Top, g |-> hist[n]]>>
           /\ IF n > 1
              THEN /\ stack' = [SubSeq(stack, 1, n - 1) EXCEPT
                                  ![n - 1] = AfterCascade(stack[n - 1], Top.err)]
                   /\ hist' = [SubSeq(hist, 1, n - 1) EXCEPT
                                  ![n - 1].cerrs = Append(@, Top.err)]
                   /\ UNCHANGED call
              ELSE /\ stack' = <<>>
                   /\ hist' = <<>>
                   /\ call' = IF call.state = "waiting"
                              THEN [call EXCEPT !.state = "returned",
                                                !.result = Top.err,
                                                !.bg = "completed"]
                              ELSE [call EXCEPT !.bg = "completed"]
    /\ UNCHANGED <<cfgvars, registry, ndos>>

\* A timeout that also ends the dispatch it gave up waiting for.
Timeout_CancelsDispatch ==
    /\ call.timed
    /\ call.state = "waiting"
    /\ stack # <<>>
    /\ call' = [call EXCEPT !.state = "timedout", !.result = TimeoutError,
                            !.seen = Len(hist[1].invoked)]
    /\ stack' = <<>>
    /\ hist' = <<>>
    /\ UNCHANGED <<cfgvars, registry, last, ndos>>

\* The timeout of app.Do(h, timeout) elapses before the dispatch is done:
\* the driver gets the timeout error and the dispatch goes on.
Timeout ==
    /\ call.timed
    /\ call.state = "waiting"
    /\ stack # <<>>
    /\ call' = [call EXCEPT !.state = "timedout", !.result = TimeoutError,
                            !.seen = Len(hist[1].invoked)]
    /\ UNCHANGED <<cfgvars, registry, stack, hist, last, ndos>>

(***************************************************************************)
(* The configuration machine: every operation of hook.go, on every hook.   *)
(***************************************************************************)
CfgNewHook == \E name \in Names, p \in Policies : NewHookAct(name, p)

CfgCopy == \E h \in HookSet : CopyAct(h)

CfgOnError == \E h \in HookSet, e \in HookSet \cup {0} : OnErrorAct(h, e)

CfgSetErrorCombiner ==
    \E h \in HookSet, f \in Combiners \cup {NoCombiner} : SetErrorCombinerAct(h, f)

CfgContinuePastError == \E h \in HookSet, b \in BOOLEAN : ContinuePastErrorAct(h, b)

CfgAppendProvider == \E h \in HookSet, p \in ProviderVals : AppendProviderAct(h, p)

CfgString == \E h \in HookSet : StringAct(h)

CfgInit == PackageInit /\ AppInit /\ budget = MaxOps

CfgNext ==
    \/ CfgNewHook
    \/ CfgCopy
    \/ CfgOnError
    \/ CfgSetErrorCombiner
    \/ CfgContinuePastError
    \/ CfgAppendProvider
    \/ CfgString

Spec == CfgInit /\ [][CfgNext]_vars

(***************************************************************************)
(* The copy-and-append machine: longer runs of Copy, OnError and appends   *)
(* to Providers on Start and on the hooks made from it, long enough for    *)
(* slices to have spare capacity.                                          *)
(***************************************************************************)
AliasHooks == {h \in HookSet : h >= Start}

AliasCopy == \E h \in AliasHooks : CopyAct(h)

AliasOnError == \E h \in AliasHooks, e \in {0, Shutdown, Stop} : OnErrorAct(h, e)

AliasAppendProvider == \E h \in AliasHooks, p \in ProviderVals : AppendProviderAct(h, p)

AliasInit == PackageInit /\ AppInit /\ budget = MaxAliasOps

AliasNext ==
    \/ AliasCopy
    \/ AliasOnError
    \/ AliasAppendProvider

AliasSpec == AliasInit /\ [][AliasNext]_vars

(***************************************************************************)
(* The dispatch machine: the predefined hooks are configured further      *)
(* (cascade targets chosen among the hooks initialised earlier, so that    *)
(* cascades end), then callbacks are registered and the driver calls Do;   *)
(* registrations go on while a dispatch runs.                              *)
(***************************************************************************)
Predefined == {Shutdown, Stop, Start}

\* Hooks are configured before the App is used.
Configuring == ndos = 0 /\ DOMAIN registry = {}

AppOnError ==
    \E h \in Predefined, e \in Predefined \cup {0} :
        Configuring /\ e < h /\ OnErrorAct(h, e)

AppSetErrorCombiner ==
    \E h \in Predefined, f \in {"f", NoCombiner} :
        Configuring /\ SetErrorCombinerAct(h, f)

AppContinuePastError ==
    \E h \in Predefined, b \in BOOLEAN :
        Configuring /\ ContinuePastErrorAct(h, b)

AppOn == \E h \in Predefined : On(h)

AppDoBegin == \E h \in Predefined : DoBegin(h, FALSE)

AppInvoke == \E ok \in BOOLEAN : Invoke(ok)

DoInit == PackageInit /\ AppInit /\ budget = MaxSetup

DoNext ==
    \/ AppOnError
    \/ AppSetErrorCombiner
    \/ AppContinuePastError
    \/ AppOn
    \/ AppDoBegin
    \/ AppInvoke
    \/ CascadeCall
    \/ Return

DoSpec == DoInit /\ [][DoNext]_vars

(***************************************************************************)
(* The timeout machine: the predefined hooks as initialised, registrations *)
(* and Do calls with or without a timeout.  The dispatch runs on a thread  *)
(* the scheduler keeps running and every callback returns, so each step of *)
(* a dispatch in progress is eventually taken.                             *)
(***************************************************************************)
TimedDoBegin == \E h \in Predefined, timed \in BOOLEAN : DoBegin(h, timed)

TimedInit == PackageInit /\ AppInit /\ budget = 0

TimedNext ==
    \/ AppOn
    \/ TimedDoBegin
    \/ AppInvoke
    \/ CascadeCall
    \/ Return
    \/ Timeout

TimedSpec ==
    /\ TimedInit
    /\ [][TimedNext]_vars
    /\ WF_vars(AppInvoke)
    /\ WF_vars(CascadeCall)
    /\ WF_vars(Return)

(***************************************************************************)
(* The cycle machine: OnError is called with any predefined hook as its    *)
(* target, the receiver itself and hooks that cascade back to it included, *)
(* then callbacks are registered and the driver calls Do without timeout.  *)
(* Every callback returns and the dispatch is kept running, so each step   *)
(* of a dispatch in progress is eventually taken.  A Do nested deeper than *)
(* the stack has room for ends the program.                                *)
(***************************************************************************)
CycOnError ==
    \E h \in Predefined, e \in Predefined : Configuring /\ OnErrorAct(h, e)

\* A cascade Do for which the stack has room.
CycCascadeCall == Len(stack) < MaxDepth /\ CascadeCall

\* A cascade Do for which it has none: the runtime's fatal stack overflow.
StackOverflow ==
    /\ stack # <<>>
    /\ CascadeDue(Top)
    /\ Len(stack) = MaxDepth
    /\ call.state # "crashed"
    /\ call' = [call EXCEPT !.state = "crashed"]
    /\ UNCHANGED <<cfgvars, registry, stack, hist, last, ndos>>

CycleInit == PackageInit /\ AppInit /\ budget = MaxSetup

CycleNext ==
    \/ CycOnError
    \/ AppOn
    \/ AppDoBegin
    \/ AppInvoke
    \/ CycCascadeCall
    \/ StackOverflow
    \/ Return

CycleSpec ==
    /\ CycleInit
    /\ [][CycleNext]_vars
    /\ WF_vars(AppInvoke)
    /\ WF_vars(CycCascadeCall)
    /\ WF_vars(StackOverflow)
    /\ WF_vars(Return)

(***************************************************************************)
(* The lock machine: goroutines call OnError, SetErrorCombiner,            *)
(* ContinuePastError and Copy concurrently.  Each call locks its           *)
(* receiver's mutex, runs its body one shared-memory access at a time,     *)
(* unlocks (the deferred call) and returns.  An operation counts as        *)
(* performed when it returns.                                              *)
(***************************************************************************)

\* Mutex l is unlocked.
Free_Always(l) == TRUE

Free(l) == \A t \in Threads : l \notin holds[t]

\* The mutexes a goroutine holding hs holds after the deferred Unlock of l.
Unlocked_Forgets(hs, l) == hs

Unlocked(hs, l) == hs \ {l}

\* The first step of a method once it is called.
Entry_SettersUnlocked(name, e) ==
    IF name = "Copy" THEN "lock"
    ELSE IF name = "OnError" /\ e # 0 THEN "read"
    ELSE "write"

Entry(name, e) == "lock"

\* The first step of a method's body, taken with the lock held.
Body(name, e) ==
    IF name = "Copy" THEN "cascade"
    ELSE IF name = "OnError" /\ e # 0 THEN "read"
    ELSE "write"

\* The calls begun and not yet returned.
InCall == {t \in Threads : thr[t].pc # "idle"}

\* A step of goroutine t that changes only its position and locals.
Local(t, c) ==
    /\ thr' = [thr EXCEPT ![t] = c]
    /\ UNCHANGED <<policy, copyOf, lastOp, ret, nops, budget, appvars>>

\* Goroutine t calls method name of hook h; a call is made by the first
\* goroutine that is free.
ThrBegin(t, name, h, e, f, b) ==
    /\ thr[t].pc = "idle"
    /\ \A u \in Threads : u < t => thr[u].pc # "idle"
    /\ nops + Cardinality(InCall) < budget
    /\ Local(t, [Idle EXCEPT !.pc = Entry(name, e), !.call = name, !.h = h,
                             !.e = e, !.f = f, !.b = b])
    /\ UNCHANGED <<hookCounter, hooks, arrays, holds>>

\* h.lock.Lock()
ThrLock(t) ==
    /\ thr[t].pc = "lock"
    /\ Free(hooks[thr[t].h].lock)
    /\ holds' = [holds EXCEPT ![t] = @ \cup {hooks[thr[t].h].lock}]
    /\ Local(t, [thr[t] EXCEPT !.pc = Body(thr[t].call, thr[t].e)])
    /\ UNCHANGED <<hookCounter, hooks, arrays>>

\* OnError: the read of h.InvokeOnError in append(h.InvokeOnError, e).
ThrRead(t) ==
    /\ thr[t].pc = "read"
    /\ Local(t, [thr[t] EXCEPT !.pc = "write", !.s = hooks[thr[t].h].InvokeOnError])
    /\ UNCHANGED <<hookCounter, hooks, arrays, holds>>

\* The assignment to the field: h.InvokeOnError = nil or the result of
\* append, h.ErrorCombiner = f, h.ContinuePast = b.
ThrWrite(t) ==
    LET c == thr[t]
        w == IF c.call = "OnError"
             THEN IF c.e = 0 THEN OnError(World, c.h, 0)
                  ELSE StoreAppend(World, c.h, c.s, c.e)
             ELSE IF c.call = "SetErrorCombiner"
             THEN SetErrorCombiner(World, c.h, c.f)
             ELSE ContinuePastError(World, c.h, c.b)
    IN  /\ c.pc = "write"
        /\ hooks' = w.hooks
        /\ arrays' = w.arrays
        /\ Local(t, [c EXCEPT !.pc = "unlock"])
        /\ UNCHANGED <<hookCounter, holds>>

\* Copy: oe := make([]*Hook, len(h.InvokeOnError)); copy(oe, h.InvokeOnError)
ThrCopyCascade(t) ==
    LET c  == thr[t]
        m1 == Make(arrays, hooks[c.h].InvokeOnError.len)
    IN  /\ c.pc = "cascade"
        /\ arrays' = CopySlice(m1.arrays, m1.slice, hooks[c.h].InvokeOnError)
        /\ Local(t, [c EXCEPT !.pc = "providers", !.oe = m1.slice])
        /\ UNCHANGED <<hookCounter, hooks, holds>>

\* Copy: op := make([]interface{}, len(h.Providers)); copy(op, h.Providers)
ThrCopyProviders(t) ==
    LET c  == thr[t]
        m2 == Make(arrays, hooks[c.h].Providers.len)
    IN  /\ c.pc = "providers"
        /\ arrays' = CopySlice(m2.arrays, m2.slice, hooks[c.h].Providers)
        /\ Local(t, [c EXCEPT !.pc = "struct", !.op = m2.slice])
        /\ UNCHANGED <<hookCounter, hooks, holds>>

\* Copy: hc := *h and the assignments to hc's fields; the new mutex gets
\* its address when hc does.
ThrCopyStruct(t) ==
    LET c == thr[t]
    IN  /\ c.pc = "struct"
        /\ hookCounter' = AddInt32(hookCounter)
        /\ Local(t, [c EXCEPT !.pc = "unlock",
                              !.hc = [hooks[c.h] EXCEPT
                                        !.InvokeOnError = c.oe,
                                        !.Id            = AddInt32(hookCounter),
                                        !.Providers     = c.op,
                                        !.lock          = 0]])
        /\ UNCHANGED <<hooks, arrays, holds>>

\* defer h.lock.Unlock()
ThrUnlock(t) ==
    /\ thr[t].pc = "unlock"
    /\ holds' = [holds EXCEPT ![t] = Unlocked(@, hooks[thr[t].h].lock)]
    /\ Local(t, [thr[t] EXCEPT !.pc = "return"])
    /\ UNCHANGED <<hookCounter, hooks, arrays>>

\* return h, or return &hc: the copy becomes a hook others can reach.
ThrReturn(t) ==
    LET c == thr[t]
    IN  /\ c.pc = "return"
        /\ thr' = [thr EXCEPT ![t] = Idle]
        /\ nops' = nops + 1
        /\ lastOp' = Op(c.call, c.h, c.e, c.f, c.b)
        /\ IF c.call = "Copy"
           THEN /\ hooks' = Append(hooks, [c.hc EXCEPT !.lock = Len(hooks) + 1])
                /\ policy' = Append(policy, policy[c.h])
                /\ copyOf' = Append(copyOf, c.h)
                /\ ret' = Len(hooks) + 1
           ELSE /\ ret' = c.h
                /\ UNCHANGED <<hooks, policy, copyOf>>
        /\ UNCHANGED <<hookCounter, arrays, holds, budget, appvars>>

\* The hooks the goroutines call methods of, and the hooks they pass.
LockHooks == {h \in HookSet : h >= Start}

LockBegin ==
    \E t \in Threads, h \in LockHooks :
        \/ \E e \in LockHooks \cup {0} : ThrBegin(t, "OnError", h, e, NoCombiner, FALSE)
        \/ ThrBegin(t, "SetErrorCombiner", h, 0, "f", FALSE)
        \/ \E b \in BOOLEAN : ThrBegin(t, "ContinuePastError", h, 0, NoCombiner, b)
        \/ ThrBegin(t, "Copy", h, 0, NoCombiner, FALSE)

\* The steps of goroutine t in a call.
ThrStep(t) ==
    \/ ThrLock(t)
    \/ ThrRead(t)
    \/ ThrWrite(t)
    \/ ThrCopyCascade(t)
    \/ ThrCopyProviders(t)
    \/ ThrCopyStruct(t)
    \/ ThrUnlock(t)
    \/ ThrReturn(t)

LockInit == PackageInit /\ AppInit /\ budget = MaxCalls

LockNext == LockBegin \/ \E t \in Threads : ThrStep(t)

\* The scheduler keeps running every goroutine that can take a step.
LockSpec ==
    /\ LockInit
    /\ [][LockNext]_vars
    /\ \A t \in Threads : WF_vars(ThrStep(t))

(***************************************************************************)
(* Properties.                                                             *)
(***************************************************************************)

\* The step just taken was operation name (a stuttering step is none).
Did(name) == nops' = nops + 1 /\ lastOp'.op = name

\* Hook h has ordering policy p: its Order field is p's constant and no
\* other policy's.
HasOrder(h, p) ==
    /\ hooks[h].Order = OrderConst(p)
    /\ \A q \in Policies \ {p} : hooks[h].Order # OrderConst(q)

\* The frames of the dispatch in progress and the frame that returned
\* last, each with its history.
Frames ==
    {[f |-> stack[i], g |-> hist[i], done |-> FALSE] : i \in 1..Len(stack)}
    \cup {[f |-> last[i].f, g |-> last[i].g, done |-> TRUE] : i \in 1..Len(last)}

IsPrefix(a, b) == Len(a) <= Len(b) /\ a = SubSeq(b, 1, Len(a))

\* The non-nil errors of a sequence of results.
NonNil(errs) == SelectSeq(errs, LAMBDA e : e # NilError)

\* The error a caller is left with after the errors errs, in order: folded
\* from the left by the combiner, or the first one when there is none.
FoldLeft(comb, errs) ==
    LET RECURSIVE Fold(_)
        Fold(n) == IF n = 1 THEN errs[1] ELSE Combine(comb, Fold(n - 1), errs[n])
    IN  IF errs = <<>> THEN NilError
        ELSE IF comb = NoCombiner THEN errs[1]
        ELSE Fold(Len(errs))

\* Error err reflects error e: every callback failure in e is in err.
Reflects(err, e) ==
    \A i \in 1..Len(e) : e[i] > 0 => \E j \in 1..Len(err) : err[j] = e[i]

\* The registration list reg in the order ordering policy p asks for.
InPolicyOrder(p, reg) == IF p = "Forward" THEN reg ELSE Reverse(reg)

\* C1, as claimed: a Do on a hook created with the Forward policy invokes
\* the callbacks in registration order and a Do on a hook created with the
\* Reverse policy in reverse registration order; hooks created with
\* different policies differ in their Order field.
C1_OrderByPolicy ==
    /\ \A fr \in Frames :
          LET want == InPolicyOrder(policy[fr.f.hook], fr.g.reg)
          IN  /\ IsPrefix(fr.g.invoked, want)
              /\ fr.done /\ ~fr.f.aborted => fr.g.invoked = want
    /\ \A a, b \in HookSet : policy[a] # policy[b] => hooks[a].Order # hooks[b].Order

StopsAtFirstError(fr) ==
    /\ Len(fr.g.failed) <= 1
    /\ fr.g.failed # <<>> =>
          /\ ~InLoop(fr.f)
          /\ fr.g.failed[1] = CallbackError(fr.f.hook, fr.g.invoked[Len(fr.g.invoked)])

\* C3, as claimed: in a Do of a hook that does not continue past errors,
\* no callback is invoked after one has failed, and the Do returns that
\* first error.
C3_AbortOnError ==
    \A fr \in Frames : ~fr.f.cont =>
        /\ StopsAtFirstError(fr)
        /\ fr.done /\ fr.g.failed # <<>> => fr.f.err = fr.g.failed[1]

\* C3, amended: no callback is invoked after one has failed, and the Do
\* returns that first error, folded by the hook's combiner with the errors
\* of its cascade Dos when it has a combiner and a cascade Do failed.
C3_AbortOnErrorAmended ==
    \A fr \in Frames : ~fr.f.cont =>
        /\ StopsAtFirstError(fr)
        /\ fr.g.failed # <<>> => fr.g.loopErr = fr.g.failed[1]
        /\ fr.done /\ fr.g.failed # <<>> =>
              /\ fr.f.err = FoldLeft(fr.f.comb, <<fr.g.failed[1]>> \o NonNil(fr.g.cerrs))
              /\ fr.f.comb = NoCombiner \/ NonNil(fr.g.cerrs) = <<>>
                    => fr.f.err = fr.g.failed[1]

\* C3 happens: a Do of a hook with three callbacks that does not continue
\* past errors has returned, its second callback having failed.
C3_Witness ==
    \E fr \in Frames :
        /\ ~fr.f.cont /\ fr.done
        /\ Len(fr.g.reg) = 3
        /\ Len(fr.g.invoked) = 2
        /\ fr.g.failed # <<>>

\* C4, as claimed: a Do of a hook that continues past errors and has a
\* combiner invokes every registered callback, and returns the left fold
\* of the combiner over the failing callbacks' errors in invocation order.
C4_CombineErrors ==
    \A fr \in Frames : fr.f.cont /\ fr.f.comb # NoCombiner /\ fr.done =>
        /\ fr.g.invoked = Chains(fr.f.order, fr.g.reg)
        /\ fr.f.err = FoldLeft(fr.f.comb, fr.g.failed)

\* C4, amended: every registered callback is invoked; the error at the end
\* of the callbacks is the left fold of the combiner over the failing
\* callbacks' errors in invocation order, and the error returned is that
\* fold continued over the errors of the cascade Dos, in cascade order.
C4_CombineErrorsAmended ==
    \A fr \in Frames : fr.f.cont /\ fr.f.comb # NoCombiner =>
        /\ fr.g.loopErr = FoldLeft(fr.f.comb, fr.g.failed)
        /\ ~InLoop(fr.f) => fr.g.invoked = Chains(fr.f.order, fr.g.reg)
        /\ fr.done =>
              fr.f.err = FoldLeft(fr.f.comb, fr.g.failed \o NonNil(fr.g.cerrs))

\* C4 happens: a Do of a hook with three callbacks, continuing past errors
\* and with a combiner, has returned; the first and the third callback it
\* invoked failed, the second did not.
C4_Witness ==
    \E fr \in Frames :
        /\ fr.f.cont /\ fr.f.comb # NoCombiner /\ fr.done
        /\ Len(fr.g.invoked) = 3
        /\ fr.g.failed = <<CallbackError(fr.f.hook, fr.g.invoked[1]),
                           CallbackError(fr.f.hook, fr.g.invoked[3])>>
        /\ fr.f.err = Combine(fr.f.comb, fr.g.failed[1], fr.g.failed[2])

\* A dispatch invokes the callbacks registered when it began, in its
\* iteration order, and all of them unless it aborts.
InvokesSnapshot(fr) ==
    LET want == Chains(fr.f.order, fr.g.reg)
    IN  /\ IsPrefix(fr.g.invoked, want)
        /\ ~InLoop(fr.f) /\ ~fr.f.aborted => fr.g.invoked = want

\* C5: when the timeout of Do(H, timeout) elapses before the dispatch is
\* done, the caller has the timeout error and keeps it, while the dispatch
\* goes on invoking the remaining callbacks in order and eventually
\* completes; when the dispatch is done first, the caller has the
\* dispatch's own result and keeps it.
C5_Timeout ==
    /\ [](call.state = "timedout" => call.result = TimeoutError)
    /\ [](call.state = "returned" =>
            /\ stack = <<>> /\ last # <<>> /\ call.bg = "completed"
            /\ call.result = last[1].f.err)
    /\ [](\A fr \in Frames : InvokesSnapshot(fr))
    /\ [](call.state = "timedout" /\ call.bg = "completed" =>
            /\ stack = <<>> /\ last # <<>>
            /\ ~InLoop(last[1].f))
    /\ [][call.state \in {"timedout", "returned"} /\ ndos' = ndos =>
            call'.state = call.state /\ call'.result = call.result]_vars
    /\ (call.state = "timedout" ~> call.bg = "completed")

\* C5 happens: the timeout elapsed after the first of three callbacks, and
\* the dispatch has since invoked the other two and completed.
C5_Witness ==
    /\ call.state = "timedout"
    /\ call.bg = "completed"
    /\ call.seen = 1
    /\ last # <<>>
    /\ last[1].f.hook = call.hook
    /\ Len(last[1].g.invoked) = 3

\* C6: a dispatch invokes the callbacks that were registered for its hook
\* when it began, in its iteration order, whatever is registered while it
\* runs; a dispatch that begins iterates the list as registered by then.
C6_RegistrationDuringDo ==
    /\ [](\A fr \in Frames : InvokesSnapshot(fr))
    /\ [][Len(stack') > Len(stack) =>
            LET f == stack'[Len(stack')]
            IN  Pending(f) = Chains(f.order, RegOf(f.hook))]_vars

\* C6 happens: a dispatch in its callback loop has invoked a callback, and
\* its hook has more callbacks registered than when it began.
C6_Witness ==
    \E fr \in Frames :
        /\ ~fr.done
        /\ InLoop(fr.f)
        /\ fr.g.invoked # <<>>
        /\ Len(RegOf(fr.f.hook)) > Len(fr.g.reg)

C8_CopyListsIndependent ==
    [][\A c \in HookSet : copyOf[c] # 0 =>
          LET h == copyOf[c]
          IN  /\ (Did("OnError") \/ Did("AppendProvider")) /\ lastOp'.recv = c
                    => Cascade(h)' = Cascade(h) /\ Callbacks(h)' = Callbacks(h)
              /\ (Did("OnError") \/ Did("AppendProvider")) /\ lastOp'.recv = h
                    => Cascade(c)' = Cascade(c) /\ Callbacks(c)' = Callbacks(c)]_vars

\* C8 happens: a hook with a three-entry cascade list (whose backing array
\* has room for a fourth) was copied, and then both the copy and the
\* original were appended to.
C8_Witness ==
    \E c \in HookSet :
        /\ copyOf[c] # 0
        /\ Len(Cascade(c)) = 4
        /\ Len(Cascade(copyOf[c])) = 4
        /\ Cascade(c)[4] # Cascade(copyOf[c])[4]
        /\ SubSeq(Cascade(c), 1, 3) = SubSeq(Cascade(copyOf[c]), 1, 3)

\* C9, as claimed: before any operation, Start is Forward with cascade
\* list [Stop] and does not continue past errors; Stop is Reverse with
\* cascade list [Shutdown] and continues; Shutdown is Reverse with no
\* cascade and does not continue; none has a combiner or callbacks; the
\* cascade graph is acyclic.
C9_PredefinedHooks ==
    nops = 0 =>
        /\ Len(hooks) = 3
        /\ HasOrder(Start, "Forward")
        /\ Cascade(Start) = <<Stop>>
        /\ ~hooks[Start].ContinuePast
        /\ HasOrder(Stop, "Reverse")
        /\ Cascade(Stop) = <<Shutdown>>
        /\ hooks[Stop].ContinuePast
        /\ HasOrder(Shutdown, "Reverse")
        /\ Cascade(Shutdown) = <<>>
        /\ ~hooks[Shutdown].ContinuePast
        /\ \A h \in {Start, Stop, Shutdown} :
              /\ hooks[h].ErrorCombiner = NoCombiner
              /\ Callbacks(h) = <<>>
              \* every cascade edge leads to a hook initialised earlier
              /\ \A i \in 1..Len(Cascade(h)) : Cascade(h)[i] < h

ReachFrom(h) ==
    LET RECURSIVE Closure(_)
        Closure(S) ==
            LET T == S \cup UNION {{Cascade(a)[i] : i \in 1..Len(Cascade(a))} : a \in S}
            IN  IF T = S THEN S ELSE Closure(T)
    IN  Closure({h})

\* The configuration of hook a: what its fields and lists hold.
Config(a) ==
    [Name          |-> hooks[a].Name,
     Order         |-> hooks[a].Order,
     InvokeOnError |-> Cascade(a),
     ContinuePast  |-> hooks[a].ContinuePast,
     ErrorCombiner |-> hooks[a].ErrorCombiner,
     Providers     |-> Callbacks(a)]

\* C11, as claimed: after c = h.Copy(), an operation on c or on a hook
\* reachable through c's cascade list changes the configuration of no hook
\* reachable from h, and an operation on h or on a hook reachable through
\* h's cascade list changes the configuration of no hook reachable from c.
C11_DeepCopy ==
    [][\A c \in HookSet : copyOf[c] # 0 =>
          LET h == copyOf[c]
          IN  /\ nops' = nops + 1 /\ lastOp'.recv \in ReachFrom(c)
                    => \A a \in ReachFrom(h) : Config(a)' = Config(a)
              /\ nops' = nops + 1 /\ lastOp'.recv \in ReachFrom(h)
                    => \A a \in ReachFrom(c) : Config(a)' = Config(a)]_vars

\* C12: h.OnError(t) with t not nil makes h's cascade list the previous
\* list with t appended as its last element, whether or not t was in it;
\* h.OnError(nil) makes it empty; both return h.
C12_OnErrorAppendsOrClears ==
    [][\A h \in HookSet, t \in HookSet \cup {0} :
          Did("OnError") /\ lastOp'.recv = h /\ lastOp'.e = t =>
              /\ t # 0 => Cascade(h)' = Append(Cascade(h), t)
              /\ t = 0 => Cascade(h)' = <<>>
              /\ ret' = h]_vars

\* C12 happens: OnError has just added a hook to a cascade list that
\* already ended with that hook after another entry.
C12_Witness ==
    /\ lastOp.op = "OnError"
    /\ lastOp.e # 0
    /\ ret = lastOp.recv
    /\ LET l == Cascade(lastOp.recv)
       IN  /\ Len(l) = 3
           /\ l[3] = lastOp.e
           /\ l[2] = lastOp.e
           /\ l[1] # lastOp.e

\* Goroutine t is in the critical section of its call: between the
\* return of Lock and the deferred Unlock.
InCS(t) == thr[t].pc \in {"read", "write", "cascade", "providers", "struct", "unlock"}

\* C13: at most one call of OnError, SetErrorCombiner, ContinuePastError
\* or Copy is in its critical section on a given hook at any time, and no
\* update of a cascade list is lost: a list changes only when an OnError
\* call stores its result, which is the list as it is then with the call's
\* target appended (or the empty list, for nil), so k concurrent calls with
\* a target make it k entries longer.
C13_MutualExclusion ==
    /\ [](\A t, u \in Threads :
            t # u /\ InCS(t) /\ InCS(u) => thr[t].h # thr[u].h)
    /\ [][\A h \in HookSet :
            \/ Cascade(h)' = Cascade(h)
            \/ \E t \in Threads :
                  /\ thr[t].pc = "write" /\ thr'[t].pc = "unlock"
                  /\ thr[t].call = "OnError" /\ thr[t].h = h
                  /\ Cascade(h)' = IF thr[t].e = 0 THEN <<>>
                                   ELSE Append(Cascade(h), thr[t].e)]_vars

\* C13 happens: two OnError calls on Start, made at the same time as the
\* first calls of the run, are both about to return, and Start's cascade
\* list is its initial entry followed by their two targets.
C13_Witness ==
    /\ nops = 0
    /\ \A t \in Threads :
          /\ thr[t].pc = "return"
          /\ thr[t].call = "OnError"
          /\ thr[t].h = Start
          /\ thr[t].e # 0
    /\ Len(Cascade(Start)) = 3
    /\ Cascade(Start)[1] = Stop

\* C14: NewHook(name, order) returns a new hook with the name and the
\* order it was given, an empty cascade list, an empty callback list, the
\* continue-past-error flag false and no combiner, whatever the hooks that
\* exist hold.
C14_NewHookFresh ==
    [][Did("NewHook") =>
          /\ ret' = Len(hooks) + 1
          /\ Len(hooks') = Len(hooks) + 1
          /\ hooks'[ret'].Name = lastOp'.name
          /\ hooks'[ret'].Order = lastOp'.order
          /\ Elems(arrays', hooks'[ret'].InvokeOnError) = <<>>
          /\ Elems(arrays', hooks'[ret'].Providers) = <<>>
          /\ hooks'[ret'].ContinuePast = FALSE
          /\ hooks'[ret'].ErrorCombiner = NoCombiner]_vars

\* C14 happens: NewHook has just returned a hook, after the hook created
\* before it was given a combiner and told to continue past errors.
C14_Witness ==
    /\ lastOp.op = "NewHook"
    /\ ret = Len(hooks)
    /\ ret > 1
    /\ hooks[ret - 1].ErrorCombiner # NoCombiner
    /\ hooks[ret - 1].ContinuePast
    /\ hooks[ret].Name = "y"

\* The configuration of the copy goroutine t has built in hc.
HcConfig(t) ==
    [Name          |-> thr[t].hc.Name,
     Order         |-> thr[t].hc.Order,
     InvokeOnError |-> Elems(arrays, thr[t].hc.InvokeOnError),
     ContinuePast  |-> thr[t].hc.ContinuePast,
     ErrorCombiner |-> thr[t].hc.ErrorCombiner,
     Providers     |-> Elems(arrays, thr[t].hc.Providers)]

\* C15: a Copy of h that runs while other goroutines call h's methods
\* yields a copy whose cascade list, flag, combiner and callback list are
\* all h's at one point of the interleaving: when Copy has built the copy
\* and is about to unlock, the copy holds what h holds in that state.
C15_CopySnapshot ==
    \A t \in Threads :
        thr[t].call = "Copy" /\ thr[t].pc = "unlock" =>
            HcConfig(t) = Config(thr[t].h)

\* C15 happens: a Copy of Start has built its copy while an OnError call
\* on Start by the other goroutine waits for the lock, after a call that
\* changed Start has returned.
C15_Witness ==
    \E t, u \in Threads :
        /\ thr[t].call = "Copy" /\ thr[t].pc = "unlock" /\ thr[t].h = Start
        /\ thr[u].call = "OnError" /\ thr[u].pc = "lock" /\ thr[u].h = Start
        /\ thr[u].e # 0
        /\ nops = 1
        /\ Config(Start) # [Name |-> "start", Order |-> ForwardOrder,
                            InvokeOnError |-> <<Stop>>, ContinuePast |-> FALSE,
                            ErrorCombiner |-> NoCombiner, Providers |-> <<>>]

\* C16: no operation changes the Id or the Order of a hook that exists;
\* every hook's Order is the constant of the policy it was created with
\* (its own, or for a copy its original's) and its Id is the one it got
\* when NewHook or Copy created it; h.Copy() leaves every field of h and
\* the contents of h's lists as they are.
C16_IdAndOrderFixed ==
    /\ [](\A h \in HookSet : hooks[h].Order = OrderConst(policy[h]))
    /\ [][\A h \in HookSet :
            /\ hooks'[h].Id = hooks[h].Id
            /\ hooks'[h].Order = hooks[h].Order]_vars
    /\ [][\A h \in HookSet :
            Did("Copy") /\ lastOp'.recv = h =>
                /\ hooks'[h] = hooks[h]
                /\ Config(h)' = Config(h)]_vars

\* C16 happens: a hook made by NewHook was copied and then asked for its
\* string.
C16_Witness ==
    \E h, c \in HookSet :
        /\ h > Start /\ copyOf[h] = 0
        /\ copyOf[c] = h
        /\ lastOp.op = "String" /\ lastOp.recv = h
        /\ lastOp.str = "hook " \o hooks[h].Name

\* The hooks other than h are as they were, with the contents of their lists.
OthersUnchanged(h) ==
    \A a \in HookSet : a # h => hooks'[a] = hooks[a] /\ Config(a)' = Config(a)

\* C17: OnError changes only the cascade list of its receiver;
\* SetErrorCombiner(f) makes the receiver's combiner f, whatever it was, and
\* changes nothing else; ContinuePastError(b) makes the receiver's flag b
\* and changes nothing else; none of them changes another hook, the target
\* passed to OnError included.
C17_SettersFrame ==
    [][\A h \in HookSet :
          /\ Did("OnError") /\ lastOp'.recv = h =>
                /\ hooks'[h] = [hooks[h] EXCEPT !.InvokeOnError = hooks'[h].InvokeOnError]
                /\ Callbacks(h)' = Callbacks(h)
                /\ OthersUnchanged(h)
          /\ Did("SetErrorCombiner") /\ lastOp'.recv = h =>
                /\ hooks'[h] = [hooks[h] EXCEPT !.ErrorCombiner = lastOp'.f]
                /\ Config(h)' = [Config(h) EXCEPT !.ErrorCombiner = lastOp'.f]
                /\ OthersUnchanged(h)
          /\ Did("ContinuePastError") /\ lastOp'.recv = h =>
                /\ hooks'[h] = [hooks[h] EXCEPT !.ContinuePast = lastOp'.b]
                /\ Config(h)' = [Config(h) EXCEPT !.ContinuePast = lastOp'.b]
                /\ OthersUnchanged(h)]_vars

\* C17 happens: Start was told to cascade to a second hook and not to
\* continue past errors, and then given a combiner, while its first
\* cascade target Stop continues past errors.
C17_Witness ==
    /\ nops = 3
    /\ lastOp.op = "SetErrorCombiner" /\ lastOp.recv = Start /\ lastOp.f = "g"
    /\ hooks[Start].ErrorCombiner = "g"
    /\ Len(Cascade(Start)) = 2
    /\ ~hooks[Start].ContinuePast
    /\ hooks[Stop].ContinuePast

\* C18: a call holds the lock of its receiver while it is in its critical
\* section and no lock otherwise, so never two locks and none when it
\* returns; a copy's lock is not its original's; and with every goroutine
\* that can take a step eventually taking one, every call returns,
\* whatever the other goroutine calls at the same time.
C18_CallsReturn ==
    /\ [](\A t \in Threads :
            holds[t] = IF InCS(t) THEN {hooks[thr[t].h].lock} ELSE {})
    /\ [](\A c \in HookSet :
            copyOf[c] # 0 => hooks[c].lock # hooks[copyOf[c]].lock)
    /\ \A t \in Threads : (thr[t].pc # "idle") ~> (thr[t].pc = "idle")

\* C18 happens: Start has a copy; one goroutine is in the critical section
\* of Start.OnError(copy) while the other is in the critical section of
\* copy.OnError(Start).
C18_Witness ==
    \E t, u \in Threads, c \in HookSet :
        /\ copyOf[c] = Start
        /\ thr[t].call = "OnError" /\ thr[t].h = Start /\ thr[t].e = c /\ InCS(t)
        /\ thr[u].call = "OnError" /\ thr[u].h = c /\ thr[u].e = Start /\ InCS(u)

\* C19, as claimed: whatever cascade lists OnError has built, a Do without
\* timeout whose callbacks all return eventually returns to the driver,
\* and the cascade Dos it makes never nest beyond what the stack has room
\* for.
C19_DoReturns ==
    /\ [](call.state # "crashed")
    /\ (call.state = "waiting") ~> (call.state = "returned")

====
